---- MODULE Spec2Model ----
(***************************************************************************)
(* Model of the svchelper package: a wrapper that runs a user task as a    *)
(* Windows service.                                                        *)
(*                                                                         *)
(*   Spec     the service side: ServiceWrapper.Execute (service.go), the   *)
(*            task it schedules (workers registered in a sync.WaitGroup,   *)
(*            sharing a cancellable context) and the svc.Run / debug.Run   *)
(*            dispatcher that feeds the request channel r and drains the   *)
(*            changes channel.  Both channels are unbuffered: a send and   *)
(*            its receive are one step.                                    *)
(*   SpecCli  the command-line side: ServiceWrapper.ManageService and the  *)
(*            operations it dispatches to, against the OS service manager. *)
(***************************************************************************)
EXTENDS Integers, Sequences, FiniteSets, TLC

\* ------------------------------------------------------------------ bounds
MaxWorkers == 2        \* workers the task may register in the wait group
MaxCmds    == 3        \* change requests the SCM issues during one run

Workers == 1..MaxWorkers

\* ------------------------------------------------- svc package vocabulary
Cmds == {"Stop", "Pause", "Continue", "Interrogate", "Shutdown"}
None == "none"

\* const cmdsAccepted = svc.AcceptStop | svc.AcceptShutdown
cmdsAccepted == {"AcceptStop", "AcceptShutdown"}

\* svc.Status{State: st, Accepts: acc}
Status(st, acc) == [State |-> st, Accepts |-> acc]

VARIABLES
  \* ---- service side
  pc,        \* position of Execute
  ctxDone,   \* ctx has been cancelled (ctx.Done() is closed)
  worker,    \* per worker: "none" | "running" (wg.Add done) | "done" (wg.Done called)
  err,       \* what Schedule returned: "unset" before the call, then "nil" | "error"
  c,         \* the ChangeRequest Execute is handling
  errno,     \* named result errno
  ssec,      \* named result ssec
  sent,      \* every status sent on changes, in order, with the sending line
  nread,     \* number of requests Execute has received from r
  handled,   \* Cmd of every request Execute has finished dispatching on, in order
  status,    \* dispatcher: the service's current status (last one received)
  outcr,     \* dispatcher: request being offered on r, or None
  ncmds      \* number of requests the SCM has issued

svcVars == <<pc, ctxDone, worker, err, c, errno, ssec, sent, nread, handled, status, outcr, ncmds>>

VARIABLES
  \* ---- command-line side
  osArgs,    \* os.Args: program name, then the arguments; a string is a sequence of characters
  cpc,       \* position of ManageService and of the operation it runs
  inService, \* result of svc.IsWindowsService(): "unset" | "yes" | "no" | "error"
  cmd,       \* strings.ToLower(os.Args[1])
  invoked,   \* the operations ManageService has called, in order
  opErr,     \* error returned by the operation ("nil" or what failed)
  ret,       \* what ManageService returned: "none" | "nil" | "error"
  exitCode,  \* os.Exit code, -1 while the process has not exited
  stState,   \* ControlService: status.State of the last reply that came without error
  timeout,   \* ControlService: the deadline
  now,       \* time.Now(), in milliseconds
  called,    \* the OS primitives that have been called
  repeated,  \* the OS primitives that have been called more than once
  failed,    \* the OS primitives that returned an error
  installed, \* service manager: a service with the wrapper's name is registered
  evtSrc,    \* registry: the event-log source is registered
  svcState   \* service manager: current state of the service

cliVars == <<osArgs, cpc, inService, cmd, invoked, opErr, ret, exitCode, stState, timeout,
             now, called, repeated, failed, installed, evtSrc, svcState>>
osVars == <<installed, evtSrc, svcState>>
vars == <<svcVars, cliVars>>

\* wg's counter: workers that called Add and not yet Done
wgCount == Cardinality({w \in Workers : worker[w] = "running"})

NoRequest == [Cmd |-> None, CurrentStatus |-> Status("Stopped", {})]

SvcInit ==
  /\ pc = "start"
  /\ ctxDone = FALSE
  /\ worker = [w \in Workers |-> "none"]
  /\ err = "unset"
  /\ c = NoRequest
  /\ errno = 0
  /\ ssec = FALSE
  /\ sent = <<>>
  /\ nread = 0
  /\ handled = <<>>
  /\ status = Status("StartPending", {})
  /\ outcr = None
  /\ ncmds = 0

\* --------------------------------------------------- command-line vocabulary
MaxOvershoot == 2      \* a sleep or a call may take up to this many thirds of a poll interval longer

ControlTimeout == 10000   \* time.Now().Add(10 * time.Second), in milliseconds
PollInterval   == 300     \* time.Sleep(300 * time.Millisecond)

States == {"Stopped", "StartPending", "StopPending", "Running",
           "ContinuePending", "PausePending", "Paused"}

CallNames == {"Connect", "OpenService", "CreateService", "InstallAsEventCreate",
              "Delete", "Remove", "Start", "Control", "Query"}

Upper == <<"A","B","C","D","E","F","G","H","I","J","K","L","M",
           "N","O","P","Q","R","S","T","U","V","W","X","Y","Z">>
Lower == <<"a","b","c","d","e","f","g","h","i","j","k","l","m",
           "n","o","p","q","r","s","t","u","v","w","x","y","z">>

ToLowerCh(ch) ==
  IF \E i \in 1..Len(Upper) : Upper[i] = ch
    THEN Lower[CHOOSE i \in 1..Len(Upper) : Upper[i] = ch]
    ELSE ch

\* the argument is compared as typed
ToLower_Identity(str) == str

\* strings.ToLower
ToLower(str) == [i \in 1..Len(str) |-> ToLowerCh(str[i])]

vDebug    == <<"d","e","b","u","g">>
vInstall  == <<"i","n","s","t","a","l","l">>
vRemove   == <<"r","e","m","o","v","e">>
vStart    == <<"s","t","a","r","t">>
vStop     == <<"s","t","o","p">>
vPause    == <<"p","a","u","s","e">>
vContinue == <<"c","o","n","t","i","n","u","e">>

\* a call of one of the wrapper's operations with its arguments
Op(name, x, y) == [op |-> name, c |-> x, to |-> y]

\* part_000:44-61   switch cmd: the operation each verb runs, None for default
VerbOp(v) ==
  CASE v = vDebug    -> Op("RunService", "true", None)
    [] v = vInstall  -> Op("InstallService", None, None)
    [] v = vRemove   -> Op("RemoveService", None, None)
    [] v = vStart    -> Op("StartService", None, None)
    [] v = vStop     -> Op("ControlService", "Stop", "Stopped")
    [] v = vPause    -> Op("ControlService", "Pause", "Paused")
    [] v = vContinue -> Op("ControlService", "Continue", "Running")
    [] OTHER         -> Op(None, None, None)

\* where each operation starts
Entry(name) ==
  CASE name = "RunService"     -> "run_service"
    [] name = "InstallService" -> "ins_exepath"
    [] name = "RemoveService"  -> "rem_connect"
    [] name = "StartService"   -> "st_connect"
    [] name = "ControlService" -> "ctl_connect"

Prog == <<"s","v","c">>

\* the command lines tried
ArgLists ==
  { <<Prog>>,
    <<Prog, vDebug>>, <<Prog, <<"D","e","b","u","g">> >>,
    <<Prog, vInstall>>, <<Prog, <<"I","N","S","T","A","L","L">> >>,
    <<Prog, vRemove>>, <<Prog, <<"r","e","M","O","v","e">> >>,
    <<Prog, vStart>>, <<Prog, <<"S","t","a","r","t">> >>,
    <<Prog, vStop>>, <<Prog, <<"S","T","O","P">> >>,
    <<Prog, vPause>>, <<Prog, <<"P","a","u","s","e">> >>,
    <<Prog, vContinue>>, <<Prog, <<"c","o","n","t","i","n","u","E">> >>,
    <<Prog, <<"i","s">>, <<"a","u","t","o","-","s","t","a","r","t","e","d">> >>,
    <<Prog, <<"i","s">>, <<"m","a","n","u","a","l","-","s","t","a","r","t","e","d">> >>,
    <<Prog, <<"s","t","o","p","p">> >>,
    <<Prog, <<"s","t","a","t","u","s">> >>,
    <<Prog, <<>> >>,
    <<Prog, <<"r","u","n">>, vStop>> }

\* the command-line side before ManageService is called
CliStart ==
  /\ cpc = "ManageService"
  /\ inService = "unset"
  /\ cmd = <<>>
  /\ invoked = <<>>
  /\ opErr = "nil"
  /\ ret = "none"
  /\ exitCode = -1
  /\ stState = None
  /\ timeout = 0
  /\ now = 0
  /\ called = {}
  /\ repeated = {}
  /\ failed = {}

Init ==
  /\ SvcInit
  /\ CliStart
  /\ osArgs = <<Prog>>
  /\ installed = TRUE
  /\ evtSrc = TRUE
  /\ svcState = "StartPending"

InitCli ==
  /\ SvcInit
  /\ CliStart
  /\ osArgs \in ArgLists
  /\ installed \in BOOLEAN
  /\ evtSrc \in BOOLEAN
  /\ svcState = "Stopped"

\* changes <- s   (the dispatcher receives it and makes it the current status)
SendChange(s, line) ==
  /\ sent' = Append(sent, [State |-> s.State, Accepts |-> s.Accepts, line |-> line])
  /\ status' = s

\* service.go:67   changes <- svc.Status{State: svc.StartPending}
SendStartPending ==
  /\ pc = "start"
  /\ SendChange(Status("StartPending", {}), 67)
  /\ pc' = "schedule"
  /\ UNCHANGED <<ctxDone, worker, err, c, errno, ssec, nread, handled, outcr, ncmds>>
  /\ UNCHANGED cliVars

\* Schedule's error is dropped: Execute goes on as if the task had started
Schedule_IgnoreErr ==
  /\ pc = "schedule"
  /\ \E ws \in SUBSET Workers, e \in {"nil", "error"} :
       /\ worker' = [w \in Workers |-> IF w \in ws THEN "running" ELSE "none"]
       /\ err' = e
       /\ pc' = "send_running"
  /\ UNCHANGED <<ctxDone, c, errno, ssec, sent, nread, handled, status, outcr, ncmds>>
  /\ UNCHANGED cliVars

\* service.go:68-70   sw.service.Schedule(ctx, wg, cancel): the task registers
\* some workers in wg and starts them, and returns an error or nil
Schedule ==
  /\ pc = "schedule"
  /\ \E ws \in SUBSET Workers, e \in {"nil", "error"} :
       /\ worker' = [w \in Workers |-> IF w \in ws THEN "running" ELSE "none"]
       /\ err' = e
       /\ pc' = IF e # "nil" THEN "err_cancel" ELSE "send_running"
  /\ UNCHANGED <<ctxDone, c, errno, ssec, sent, nread, handled, status, outcr, ncmds>>
  /\ UNCHANGED cliVars

\* service.go:71-72   elog.Error(...); cancel()
ErrCancel ==
  /\ pc = "err_cancel"
  /\ ctxDone' = TRUE
  /\ pc' = "err_wait"
  /\ UNCHANGED <<worker, err, c, errno, ssec, sent, nread, handled, status, outcr, ncmds>>
  /\ UNCHANGED cliVars

\* The error path returns without wg.Wait()
ErrWait_NoWait ==
  /\ pc = "err_wait"
  /\ errno' = 1
  /\ pc' = "returned"
  /\ UNCHANGED <<ctxDone, worker, err, c, ssec, sent, nread, handled, status, outcr, ncmds>>
  /\ UNCHANGED cliVars

\* service.go:73-75   wg.Wait(); errno = 1; return
ErrWait ==
  /\ pc = "err_wait"
  /\ wgCount = 0
  /\ errno' = 1
  /\ pc' = "returned"
  /\ UNCHANGED <<ctxDone, worker, err, c, ssec, sent, nread, handled, status, outcr, ncmds>>
  /\ UNCHANGED cliVars

\* service.go:77   changes <- svc.Status{State: svc.Running, Accepts: cmdsAccepted}
SendRunning ==
  /\ pc = "send_running"
  /\ SendChange(Status("Running", cmdsAccepted), 77)
  /\ pc' = "select"
  /\ UNCHANGED <<ctxDone, worker, err, c, errno, ssec, nread, handled, outcr, ncmds>>
  /\ UNCHANGED cliVars

\* service.go:81-82   case <-ctx.Done()
SelectDone ==
  /\ pc = "select"
  /\ ctxDone
  /\ pc' = "done_wait"
  /\ UNCHANGED <<ctxDone, worker, err, c, errno, ssec, sent, nread, handled, status, outcr, ncmds>>
  /\ UNCHANGED cliVars

\* "return" in place of "break loop": the final status is skipped
DoneWait_Return ==
  /\ pc = "done_wait"
  /\ wgCount = 0
  /\ errno' = 0
  /\ pc' = "returned"
  /\ UNCHANGED <<ctxDone, worker, err, c, ssec, sent, nread, handled, status, outcr, ncmds>>
  /\ UNCHANGED cliVars

\* The ctx.Done() branch leaves the loop without wg.Wait()
DoneWait_NoWait ==
  /\ pc = "done_wait"
  /\ errno' = 0
  /\ pc' = "send_stoppending"
  /\ UNCHANGED <<ctxDone, worker, err, c, ssec, sent, nread, handled, status, outcr, ncmds>>
  /\ UNCHANGED cliVars

\* service.go:83-85   wg.Wait(); errno = 0; break loop
DoneWait ==
  /\ pc = "done_wait"
  /\ wgCount = 0
  /\ errno' = 0
  /\ pc' = "send_stoppending"
  /\ UNCHANGED <<ctxDone, worker, err, c, ssec, sent, nread, handled, status, outcr, ncmds>>
  /\ UNCHANGED cliVars

\* Pause is treated like Stop
Dispatch_PauseStops(rq) ==
  CASE rq = "Interrogate"                     -> "echo1"
    [] rq \in {"Stop", "Shutdown", "Pause"}   -> "stop_cancel"
    [] OTHER                                   -> "select"

\* service.go:87-103   switch c.Cmd
Dispatch(rq) ==
  CASE rq = "Interrogate"            -> "echo1"
    [] rq \in {"Stop", "Shutdown"}   -> "stop_cancel"
    [] OTHER                          -> "select"

\* service.go:86-87, 101-102   case c := <-r, and the default branch of the
\* switch, which only logs
SelectRecv ==
  /\ pc = "select"
  /\ outcr # None
  /\ c' = [Cmd |-> outcr, CurrentStatus |-> status]
  /\ outcr' = None
  /\ nread' = nread + 1
  /\ pc' = Dispatch(outcr)
  /\ handled' = IF Dispatch(outcr) = "select" THEN Append(handled, outcr) ELSE handled
  /\ UNCHANGED <<ctxDone, worker, err, errno, ssec, sent, status, ncmds>>
  /\ UNCHANGED cliVars

\* service.go:89   changes <- c.CurrentStatus
Echo1 ==
  /\ pc = "echo1"
  /\ SendChange(c.CurrentStatus, 89)
  /\ pc' = "sleep"
  /\ UNCHANGED <<ctxDone, worker, err, c, errno, ssec, nread, handled, outcr, ncmds>>
  /\ UNCHANGED cliVars

\* service.go:91   time.Sleep(100 * time.Millisecond)
Sleep ==
  /\ pc = "sleep"
  /\ pc' = "echo2"
  /\ UNCHANGED <<ctxDone, worker, err, c, errno, ssec, sent, nread, handled, status, outcr, ncmds>>
  /\ UNCHANGED cliVars

\* service.go:92   changes <- c.CurrentStatus
Echo2 ==
  /\ pc = "echo2"
  /\ SendChange(c.CurrentStatus, 92)
  /\ pc' = "select"
  /\ handled' = Append(handled, c.Cmd)
  /\ UNCHANGED <<ctxDone, worker, err, c, errno, ssec, nread, outcr, ncmds>>
  /\ UNCHANGED cliVars

\* The stop branch forgets cancel()
StopCancel_NoCancel ==
  /\ pc = "stop_cancel"
  /\ pc' = "stop_wait"
  /\ UNCHANGED <<ctxDone, worker, err, c, errno, ssec, sent, nread, handled, status, outcr, ncmds>>
  /\ UNCHANGED cliVars

\* service.go:95-98   elog.Info(1, testOutput); cancel()
StopCancel ==
  /\ pc = "stop_cancel"
  /\ ctxDone' = TRUE
  /\ pc' = "stop_wait"
  /\ UNCHANGED <<worker, err, c, errno, ssec, sent, nread, handled, status, outcr, ncmds>>
  /\ UNCHANGED cliVars

\* The stop branch leaves the loop without wg.Wait()
StopWait_NoWait ==
  /\ pc = "stop_wait"
  /\ pc' = "send_stoppending"
  /\ handled' = Append(handled, c.Cmd)
  /\ UNCHANGED <<ctxDone, worker, err, c, errno, ssec, sent, nread, status, outcr, ncmds>>
  /\ UNCHANGED cliVars

\* service.go:99-100   wg.Wait(); break loop
StopWait ==
  /\ pc = "stop_wait"
  /\ wgCount = 0
  /\ pc' = "send_stoppending"
  /\ handled' = Append(handled, c.Cmd)
  /\ UNCHANGED <<ctxDone, worker, err, c, errno, ssec, sent, nread, status, outcr, ncmds>>
  /\ UNCHANGED cliVars

\* service.go:106-107   changes <- svc.Status{State: svc.StopPending}; return
SendStopPending ==
  /\ pc = "send_stoppending"
  /\ SendChange(Status("StopPending", {}), 106)
  /\ pc' = "returned"
  /\ UNCHANGED <<ctxDone, worker, err, c, errno, ssec, nread, handled, outcr, ncmds>>
  /\ UNCHANGED cliVars

\* One step of Execute
Execute ==
  \/ SendStartPending \/ Schedule \/ ErrCancel \/ ErrWait \/ SendRunning
  \/ SelectDone \/ DoneWait \/ SelectRecv \/ Echo1 \/ Sleep \/ Echo2
  \/ StopCancel \/ StopWait \/ SendStopPending

\* A worker of the task returns and does wg.Done()
WorkerDone ==
  /\ \E w \in Workers :
       /\ worker[w] = "running"
       /\ worker' = [worker EXCEPT ![w] = "done"]
  /\ UNCHANGED <<pc, ctxDone, err, c, errno, ssec, sent, nread, handled, status, outcr, ncmds>>
  /\ UNCHANGED cliVars

\* A worker of the task invokes the cancel function Schedule was given
WorkerCancel ==
  /\ \E w \in Workers : worker[w] = "running"
  /\ ~ctxDone
  /\ ctxDone' = TRUE
  /\ UNCHANGED <<pc, worker, err, c, errno, ssec, sent, nread, handled, status, outcr, ncmds>>
  /\ UNCHANGED cliVars

\* The SCM issues a control request; the dispatcher offers it on r until
\* Execute receives it
CtlEvent ==
  /\ pc # "returned"
  /\ outcr = None
  /\ ncmds < MaxCmds
  /\ \E rq \in Cmds : outcr' = rq
  /\ ncmds' = ncmds + 1
  /\ UNCHANGED <<pc, ctxDone, worker, err, c, errno, ssec, sent, nread, handled, status>>
  /\ UNCHANGED cliVars

Next == Execute \/ WorkerDone \/ WorkerCancel \/ CtlEvent

Spec == Init /\ [][Next]_vars

\* ------------------------------------------------------- command-line side
mgrLocals == <<osArgs, inService, cmd, invoked, ret, exitCode>>
ctlLocals == <<stState, timeout, now>>

\* how much longer than asked a sleep may take, in milliseconds
Overshoots == {k * (PollInterval \div 3) : k \in 0..MaxOvershoot}

\* one call of an OS primitive and its outcome
Call(name, ok) ==
  /\ called' = called \cup {name}
  /\ repeated' = IF name \in called THEN repeated \cup {name} ELSE repeated
  /\ failed' = IF ok THEN failed ELSE failed \cup {name}

\* the operation returns e to ManageService
Return(e) == opErr' = e /\ cpc' = "op_returned"
Goto(l) == cpc' = l /\ UNCHANGED opErr

\* the operation ManageService called, and ControlService's arguments c and to
CurOp == invoked[Len(invoked)]

\* part_000:20-28   usage: print and os.Exit(2)
Usage ==
  /\ exitCode' = 2
  /\ cpc' = "exited"

\* the command line is looked at even when running as a service
IsWindowsService_NoPrecedence ==
  /\ cpc = "ManageService"
  /\ \E r \in {"yes", "no", "error"} :
       /\ inService' = r
       /\ IF r = "error"
            THEN ret' = "error" /\ cpc' = "done"
            ELSE cpc' = "args" /\ UNCHANGED ret
  /\ UNCHANGED <<osArgs, cmd, invoked, opErr, exitCode, ctlLocals, called, repeated, failed, osVars>>
  /\ UNCHANGED svcVars

\* part_000:31-37   svc.IsWindowsService(), and the in-service branch
IsWindowsService ==
  /\ cpc = "ManageService"
  /\ \E r \in {"yes", "no", "error"} :
       /\ inService' = r
       /\ CASE r = "error" -> /\ ret' = "error"
                              /\ cpc' = "done"
                              /\ UNCHANGED invoked
            [] r = "yes"   -> /\ invoked' = Append(invoked, Op("RunService", "false", None))
                              /\ cpc' = "run_service"
                              /\ UNCHANGED ret
            [] r = "no"    -> /\ cpc' = "args"
                              /\ UNCHANGED <<invoked, ret>>
  /\ UNCHANGED <<osArgs, cmd, opErr, exitCode, ctlLocals, called, repeated, failed, osVars>>
  /\ UNCHANGED svcVars

\* part_000:39-43   len(os.Args) < 2, cmd := strings.ToLower(os.Args[1])
CheckArgs ==
  /\ cpc = "args"
  /\ IF Len(osArgs) < 2
       THEN Usage /\ UNCHANGED cmd
       ELSE /\ cmd' = ToLower(osArgs[2])
            /\ cpc' = "switch"
            /\ UNCHANGED exitCode
  /\ UNCHANGED <<osArgs, inService, invoked, opErr, ret, ctlLocals, called, repeated, failed, osVars>>
  /\ UNCHANGED svcVars

\* part_000:44-61   switch cmd
Switch ==
  /\ cpc = "switch"
  /\ IF VerbOp(cmd).op = None
       THEN Usage /\ UNCHANGED invoked
       ELSE /\ invoked' = Append(invoked, VerbOp(cmd))
            /\ cpc' = Entry(VerbOp(cmd).op)
            /\ UNCHANGED exitCode
  /\ UNCHANGED <<osArgs, inService, cmd, opErr, ret, ctlLocals, called, repeated, failed, osVars>>
  /\ UNCHANGED svcVars

\* part_000:36, 62-65   ManageService returns the operation's error, or nil
OpReturned ==
  /\ cpc = "op_returned"
  /\ ret' = IF opErr # "nil" THEN "error" ELSE "nil"
  /\ cpc' = "done"
  /\ UNCHANGED <<osArgs, inService, cmd, invoked, opErr, exitCode, ctlLocals, called, repeated, failed, osVars>>
  /\ UNCHANGED svcVars

\* service.go:110-133   RunService(isDebug): open the log (the event log
\* unless isDebug), run the service to its end
RunService ==
  /\ cpc = "run_service"
  /\ \E e \in (IF CurOp.c = "true" THEN {"nil", "run"} ELSE {"nil", "eventlog.Open", "run"}) :
       Return(e)
  /\ UNCHANGED <<mgrLocals, ctlLocals, called, repeated, failed, osVars>>
  /\ UNCHANGED svcVars

\* mgr.Connect()
Connect(here, next) ==
  /\ cpc = here
  /\ \E ok \in BOOLEAN :
       /\ Call("Connect", ok)
       /\ IF ok THEN Goto(next) ELSE Return("connect")
  /\ UNCHANGED <<mgrLocals, ctlLocals, osVars>>
  /\ UNCHANGED svcVars

\* m.OpenService(sw.serviceName): succeeds only for a registered service
OpenService(here, next, e) ==
  /\ cpc = here
  /\ \E ok \in (IF installed THEN BOOLEAN ELSE {FALSE}) :
       /\ Call("OpenService", ok)
       /\ IF ok THEN Goto(next) ELSE Return(e)
  /\ UNCHANGED <<mgrLocals, ctlLocals, osVars>>
  /\ UNCHANGED svcVars

\* part_001:46-49   sw.ExePath()
InsExePath ==
  /\ cpc = "ins_exepath"
  /\ \E ok \in BOOLEAN : IF ok THEN Goto("ins_connect") ELSE Return("exepath")
  /\ UNCHANGED <<mgrLocals, ctlLocals, called, repeated, failed, osVars>>
  /\ UNCHANGED svcVars

\* part_001:50-54
InsConnect == Connect("ins_connect", "ins_open")

\* part_001:55-59   an OpenService that succeeds means "already exists"; one
\* that fails, for whatever reason, leads on to CreateService
InsOpen ==
  /\ cpc = "ins_open"
  /\ \E ok \in (IF installed THEN BOOLEAN ELSE {FALSE}) :
       /\ Call("OpenService", ok)
       /\ IF ok THEN Return("exists") ELSE Goto("ins_create")
  /\ UNCHANGED <<mgrLocals, ctlLocals, osVars>>
  /\ UNCHANGED svcVars

\* part_001:60-64   m.CreateService(...): succeeds only if the name is free
InsCreate ==
  /\ cpc = "ins_create"
  /\ \E ok \in (IF installed THEN {FALSE} ELSE BOOLEAN) :
       /\ Call("CreateService", ok)
       /\ IF ok THEN /\ installed' = TRUE
                     /\ Goto("ins_eventlog")
               ELSE /\ UNCHANGED installed
                    /\ Return("create")
  /\ UNCHANGED <<mgrLocals, ctlLocals, evtSrc, svcState>>
  /\ UNCHANGED svcVars

\* part_001:65-66, 70   eventlog.InstallAsEventCreate(...)
InsEventLog ==
  /\ cpc = "ins_eventlog"
  /\ \E ok \in BOOLEAN :
       /\ Call("InstallAsEventCreate", ok)
       /\ IF ok THEN /\ evtSrc' = TRUE
                     /\ Return("nil")
               ELSE /\ UNCHANGED evtSrc
                    /\ Goto("ins_rollback")
  /\ UNCHANGED <<mgrLocals, ctlLocals, installed, svcState>>
  /\ UNCHANGED svcVars

\* the event-log error is returned with the created service left in place
InsRollback_NoDelete ==
  /\ cpc = "ins_rollback"
  /\ Return("eventlog")
  /\ UNCHANGED <<mgrLocals, ctlLocals, called, repeated, failed, osVars>>
  /\ UNCHANGED svcVars

\* part_001:67-68   s.Delete(), its result dropped, then the event-log error
InsRollback ==
  /\ cpc = "ins_rollback"
  /\ \E ok \in BOOLEAN :
       /\ Call("Delete", ok)
       /\ installed' = IF ok THEN FALSE ELSE installed
  /\ Return("eventlog")
  /\ UNCHANGED <<mgrLocals, ctlLocals, evtSrc, svcState>>
  /\ UNCHANGED svcVars

\* part_001:74-78
RemConnect == Connect("rem_connect", "rem_open")

\* part_001:79-83
RemOpen == OpenService("rem_open", "rem_delete", "notinstalled")

\* a failed Delete is followed by the removal of the event-log source all the same
RemDelete_IgnoreErr ==
  /\ cpc = "rem_delete"
  /\ \E ok \in BOOLEAN :
       /\ Call("Delete", ok)
       /\ installed' = IF ok THEN FALSE ELSE installed
       /\ Goto("rem_evremove")
  /\ UNCHANGED <<mgrLocals, ctlLocals, evtSrc, svcState>>
  /\ UNCHANGED svcVars

\* part_001:84-87   s.Delete()
RemDelete ==
  /\ cpc = "rem_delete"
  /\ \E ok \in BOOLEAN :
       /\ Call("Delete", ok)
       /\ IF ok THEN /\ installed' = FALSE
                     /\ Goto("rem_evremove")
               ELSE /\ UNCHANGED installed
                    /\ Return("delete")
  /\ UNCHANGED <<mgrLocals, ctlLocals, evtSrc, svcState>>
  /\ UNCHANGED svcVars

\* part_001:88-92   eventlog.Remove(sw.serviceName)
RemEventLog ==
  /\ cpc = "rem_evremove"
  /\ \E ok \in BOOLEAN :
       /\ Call("Remove", ok)
       /\ IF ok THEN /\ evtSrc' = FALSE
                     /\ Return("nil")
               ELSE /\ UNCHANGED evtSrc
                    /\ Return("evremove")
  /\ UNCHANGED <<mgrLocals, ctlLocals, installed, svcState>>
  /\ UNCHANGED svcVars

\* part_000:69-73
StConnect == Connect("st_connect", "st_open")

\* part_000:74-78
StOpen == OpenService("st_open", "st_start", "open")

\* s.Start fails, and StartService returns nil all the same
StStart_IgnoreErr ==
  /\ cpc = "st_start"
  /\ \E ok \in BOOLEAN :
       /\ Call("Start", ok)
       /\ svcState' = IF ok THEN "StartPending" ELSE svcState
       /\ Return("nil")
  /\ UNCHANGED <<mgrLocals, ctlLocals, installed, evtSrc>>
  /\ UNCHANGED svcVars

\* part_000:79-83   s.Start("is", "manual-started"), and the return
StStart ==
  /\ cpc = "st_start"
  /\ \E ok \in BOOLEAN :
       /\ Call("Start", ok)
       /\ IF ok THEN /\ svcState' = "StartPending"
                     /\ Return("nil")
               ELSE /\ UNCHANGED svcState
                    /\ Return("start")
  /\ UNCHANGED <<mgrLocals, ctlLocals, installed, evtSrc>>
  /\ UNCHANGED svcVars

\* part_000:87-91
CtlConnect == Connect("ctl_connect", "ctl_open")

\* part_000:92-96
CtlOpen == OpenService("ctl_open", "ctl_control", "open")

\* part_000:97-101   s.Control(c): the reply carries the state the service
\* is in after the request; then the deadline is set
CtlControl ==
  /\ cpc = "ctl_control"
  /\ \E ok \in BOOLEAN :
       /\ Call("Control", ok)
       /\ IF ok THEN /\ \E st \in States : svcState' = st /\ stState' = st
                     /\ timeout' = now + ControlTimeout
                     /\ Goto("ctl_loop")
               ELSE /\ UNCHANGED <<svcState, stState, timeout>>
                    /\ Return("control")
  /\ UNCHANGED <<mgrLocals, now, installed, evtSrc>>
  /\ UNCHANGED svcVars

\* the deadline is ignored: past it, the wait ends with nil
CtlLoop_TimeoutNil ==
  /\ cpc = "ctl_loop"
  /\ IF stState # CurOp.to
       THEN IF timeout < now THEN Return("nil") ELSE Goto("ctl_sleep")
       ELSE Return("nil")
  /\ UNCHANGED <<mgrLocals, ctlLocals, called, repeated, failed, osVars>>
  /\ UNCHANGED svcVars

\* part_000:102-105, 112   for status.State != to { if timeout.Before(time.Now()) ...
CtlLoop ==
  /\ cpc = "ctl_loop"
  /\ IF stState # CurOp.to
       THEN IF timeout < now THEN Return("timeout") ELSE Goto("ctl_sleep")
       ELSE Return("nil")
  /\ UNCHANGED <<mgrLocals, ctlLocals, called, repeated, failed, osVars>>
  /\ UNCHANGED svcVars

\* part_000:106   time.Sleep(300 * time.Millisecond)
CtlSleep ==
  /\ cpc = "ctl_sleep"
  /\ \E d \in Overshoots : now' = now + PollInterval + d
  /\ Goto("ctl_query")
  /\ UNCHANGED <<mgrLocals, stState, timeout, called, repeated, failed, osVars>>
  /\ UNCHANGED svcVars

\* a failed Query is tried again after the next sleep
CtlQuery_RetryOnError ==
  /\ cpc = "ctl_query"
  /\ \E ok \in BOOLEAN :
       /\ Call("Query", ok)
       /\ stState' = IF ok THEN svcState ELSE stState
       /\ Goto("ctl_loop")
  /\ UNCHANGED <<mgrLocals, timeout, now, osVars>>
  /\ UNCHANGED svcVars

\* part_000:107-110   status, err = s.Query()
CtlQuery ==
  /\ cpc = "ctl_query"
  /\ \E ok \in BOOLEAN :
       /\ Call("Query", ok)
       /\ IF ok THEN /\ stState' = svcState
                     /\ Goto("ctl_loop")
               ELSE /\ UNCHANGED stState
                    /\ Return("query")
  /\ UNCHANGED <<mgrLocals, timeout, now, osVars>>
  /\ UNCHANGED svcVars

\* The service reports a new state to the service manager while
\* ControlService waits
ServiceReports ==
  /\ cpc \in {"ctl_loop", "ctl_sleep", "ctl_query"}
  /\ \E st \in States \ {svcState} : svcState' = st
  /\ UNCHANGED <<mgrLocals, cpc, opErr, ctlLocals, called, repeated, failed, installed, evtSrc>>
  /\ UNCHANGED svcVars

\* One step of ManageService or of the operation it runs
ManageService ==
  \/ IsWindowsService \/ CheckArgs \/ Switch \/ OpReturned \/ RunService
  \/ InsExePath \/ InsConnect \/ InsOpen \/ InsCreate \/ InsEventLog \/ InsRollback
  \/ RemConnect \/ RemOpen \/ RemDelete \/ RemEventLog
  \/ StConnect \/ StOpen \/ StStart
  \/ CtlConnect \/ CtlOpen \/ CtlControl \/ CtlLoop \/ CtlSleep \/ CtlQuery

NextCli == ManageService \/ ServiceReports

SpecCli == InitCli /\ [][NextCli]_vars

\* the process keeps running until ManageService returns or exits
FairSpecCli == SpecCli /\ WF_vars(ManageService)

CliTypeOK ==
  /\ cpc \in {"ManageService", "args", "switch", "op_returned", "done", "exited",
              "run_service", "ins_exepath", "ins_connect", "ins_open", "ins_create",
              "ins_eventlog", "ins_rollback", "rem_connect", "rem_open", "rem_delete",
              "rem_evremove", "st_connect", "st_open", "st_start", "ctl_connect",
              "ctl_open", "ctl_control", "ctl_loop", "ctl_sleep", "ctl_query"}
  /\ inService \in {"unset", "yes", "no", "error"}
  /\ ret \in {"none", "nil", "error"}
  /\ exitCode \in {-1, 2}
  /\ stState \in States \cup {None}
  /\ failed \subseteq called /\ repeated \subseteq called /\ called \subseteq CallNames
  /\ installed \in BOOLEAN /\ evtSrc \in BOOLEAN
  /\ svcState \in States
  /\ Len(invoked) <= 1

\* -------------------------------------------- command-line side properties
OpIs(name) == invoked # <<>> /\ CurOp.op = name
OpDone == cpc \in {"op_returned", "done"}

\* C3 as stated: start, stop, pause and continue report success only once
\* the service has been observed in the target state.
C3_SuccessOnlyAfterTarget ==
  (cpc = "done" /\ ret = "nil" /\ inService = "no") =>
     /\ OpIs("ControlService") => stState = CurOp.to
     /\ OpIs("StartService") => stState = "Running"

\* C3 amended: stop, pause and continue report success only with the target
\* state observed, and a timeout error once the deadline has passed with
\* another state observed; with no failed call these are the only outcomes.
\* start does not wait: it never queries, and succeeds as soon as the start
\* request is accepted.
C3_ControlWaitsStartDoesNot ==
  /\ (OpIs("ControlService") /\ OpDone) =>
        /\ opErr = "nil" => stState = CurOp.to
        /\ opErr = "timeout" => (stState # CurOp.to /\ now > timeout)
        /\ failed = {} => opErr \in {"nil", "timeout"}
  /\ (OpIs("ControlService") /\ cpc = "done") => (ret = "nil" <=> opErr = "nil")
  /\ OpIs("StartService") =>
        /\ "Query" \notin called /\ stState = None
        /\ cpc = "done" => (ret = "nil" <=> failed = {})

\* pause succeeded after polling
C3_Witness ==
  /\ OpIs("ControlService") /\ CurOp.c = "Pause"
  /\ cpc = "done" /\ ret = "nil"
  /\ "Query" \in called
  /\ stState = "Paused"

\* a is b up to the case of its letters (b in lower case)
EqFold(a, b) ==
  /\ Len(a) = Len(b)
  /\ \A i \in 1..Len(a) :
       \/ a[i] = b[i]
       \/ \E j \in 1..Len(Upper) : a[i] = Upper[j] /\ b[i] = Lower[j]

\* verb, the operation it stands for, the OS primitives that operation uses
C5_Table ==
  { <<vDebug,    Op("RunService", "true", None), {}>>,
    <<vInstall,  Op("InstallService", None, None),
                 {"Connect", "OpenService", "CreateService", "InstallAsEventCreate", "Delete"}>>,
    <<vRemove,   Op("RemoveService", None, None), {"Connect", "OpenService", "Delete", "Remove"}>>,
    <<vStart,    Op("StartService", None, None), {"Connect", "OpenService", "Start"}>>,
    <<vStop,     Op("ControlService", "Stop", "Stopped"), {"Connect", "OpenService", "Control", "Query"}>>,
    <<vPause,    Op("ControlService", "Pause", "Paused"), {"Connect", "OpenService", "Control", "Query"}>>,
    <<vContinue, Op("ControlService", "Continue", "Running"), {"Connect", "OpenService", "Control", "Query"}>> }

\* C5: outside a service, the first argument, whatever its case, selects
\* exactly its own operation; with no argument or any other one the process
\* exits with code 2 and no operation or OS primitive has been called.
C5_VerbDispatch ==
  inService = "no" =>
     /\ \A t \in C5_Table :
          (Len(osArgs) >= 2 /\ EqFold(osArgs[2], t[1])) =>
             /\ cpc \notin {"args", "switch"} => invoked = <<t[2]>>
             /\ called \subseteq t[3]
             /\ exitCode = -1
     /\ (Len(osArgs) < 2 \/ \A t \in C5_Table : ~EqFold(osArgs[2], t[1])) =>
             /\ invoked = <<>> /\ called = {} /\ ret = "none"
             /\ cpc \in {"args", "switch", "exited"}
             /\ cpc = "exited" => exitCode = 2

\* "Pause" typed with a capital ran ControlService(Pause, Paused)
C5_Witness ==
  /\ inService = "no"
  /\ Len(osArgs) >= 2 /\ osArgs[2] # vPause /\ cmd = vPause
  /\ invoked = <<Op("ControlService", "Pause", "Paused")>>
  /\ "Control" \in called

\* C6 as stated: every failed call makes the operation return an error,
\* nothing is called to recover, and only Query is ever repeated.
C6_EveryFailurePassedThrough ==
  /\ (OpDone /\ failed # {}) => opErr # "nil"
  /\ OpIs("InstallService") => "Delete" \notin called
  /\ repeated \subseteq {"Query"}

\* the failed calls that do not end InstallService with an error of their own
InstallTolerates == IF OpIs("InstallService") THEN {"OpenService", "Delete"} ELSE {}

\* C6 amended: every failed call makes the operation return an error, except
\* OpenService in InstallService; no call but Query is repeated, and Query
\* only by ControlService; an operation goes on after a failure only in
\* InstallService, from OpenService to CreateService and from the event-log
\* registration to the one Delete.
C6_FailuresPassedThrough ==
  /\ (OpDone /\ failed \ {"OpenService"} # {}) => opErr # "nil"
  /\ (OpDone /\ failed # {} /\ ~OpIs("InstallService")) => opErr # "nil"
  /\ repeated \subseteq {"Query"}
  /\ "Query" \in called => OpIs("ControlService")
  /\ (failed \ InstallTolerates # {}) => (OpDone \/ cpc = "ins_rollback")
  /\ (OpIs("InstallService") /\ "Delete" \in called) => "InstallAsEventCreate" \in failed

\* InstallService went past a failed OpenService, and its Delete failed too
C6_Witness ==
  /\ OpIs("InstallService") /\ cpc = "done"
  /\ failed = {"OpenService", "InstallAsEventCreate", "Delete"}
  /\ ret = "error"

Succeeded(name) == name \in called \ failed

\* C13 as stated: a service found to exist (OpenService succeeds) is answered
\* by 'already exists' with nothing created; after an error no service is
\* newly registered; after nil the service and its event-log source are both
\* registered.
C13_AllOrNothing ==
  OpIs("InstallService") =>
     /\ (Succeeded("OpenService") /\ OpDone) => opErr = "exists"
     /\ opErr = "exists" => called \cap {"CreateService", "InstallAsEventCreate", "Delete"} = {}
     /\ (OpDone /\ opErr # "nil") => ~(Succeeded("CreateService") /\ installed)
     /\ (OpDone /\ opErr = "nil") => (installed /\ evtSrc)

C13_Install ==
  OpIs("InstallService") =>
     /\ opErr = "exists" => (installed /\ called = {"Connect", "OpenService"} /\ failed = {})
     /\ "CreateService" \in called => "OpenService" \in failed
     /\ cpc \in {"ins_eventlog", "ins_rollback"} => (Succeeded("CreateService") /\ installed)
     /\ "Delete" \in called =>
           (Succeeded("CreateService") /\ "InstallAsEventCreate" \in failed /\ OpDone)
     /\ (OpDone /\ opErr = "eventlog") =>
           ("Delete" \in called /\ (installed <=> "Delete" \in failed))
     /\ (OpDone /\ opErr # "nil" /\ Succeeded("CreateService")) => opErr = "eventlog"
     /\ (OpDone /\ opErr = "nil") =>
           (installed /\ evtSrc /\ Succeeded("CreateService") /\ Succeeded("InstallAsEventCreate"))

\* as long as InstallService has not created the service, it changes neither
\* the registration of the service nor that of the event-log source
C13_NothingBeforeCreate ==
  (OpIs("InstallService") /\ ~Succeeded("CreateService")') =>
     (installed' = installed /\ evtSrc' = evtSrc)

\* C13 amended: a service that exists and can be opened is answered by
\* 'already exists' with nothing created or modified, and an existing
\* service is never modified; when the event-log registration fails, the
\* just-created service is deleted, or left if that Delete fails, before the
\* event-log error is returned; so after an error a service is newly
\* registered only if that Delete failed, and after nil the service and its
\* event-log source are both registered.
C13_InstallRollsBack ==
  /\ []C13_Install
  /\ [][C13_NothingBeforeCreate]_vars

\* the event-log registration failed and the created service was deleted
C13_Witness ==
  /\ OpIs("InstallService") /\ cpc = "done" /\ ret = "error"
  /\ opErr = "eventlog"
  /\ Succeeded("Delete") /\ ~installed

C14_Remove ==
  OpIs("RemoveService") =>
     /\ opErr = "notinstalled" => (called = {"Connect", "OpenService"} /\ "OpenService" \in failed)
     /\ "Delete" \in called => Succeeded("OpenService")
     /\ "Remove" \in called => (Succeeded("Delete") /\ ~installed)
     /\ "Delete" \in failed => (OpDone /\ opErr = "delete" /\ "Remove" \notin called)
     /\ "Remove" \in failed => (OpDone /\ opErr = "evremove" /\ ~installed)
     /\ (OpDone /\ opErr = "nil") =>
           (Succeeded("Delete") /\ Succeeded("Remove") /\ ~installed /\ ~evtSrc)

\* a service that is not installed is answered by 'not installed', and until
\* the service has been deleted RemoveService changes neither registration
C14_RemoveSteps ==
  /\ (OpIs("RemoveService") /\ cpc = "rem_open" /\ ~installed /\ cpc' # cpc) =>
        opErr' = "notinstalled"
  /\ (OpIs("RemoveService") /\ ~Succeeded("Delete")') =>
        (installed' = installed /\ evtSrc' = evtSrc)

\* C14: RemoveService answers a service that is not installed by 'not
\* installed' and removes nothing; it removes the event-log source only after
\* the service has been deleted; it returns nil only with both removed, and
\* an error, with the service already deleted, when the event-log removal
\* fails.
C14_RemoveOrder ==
  /\ []C14_Remove
  /\ [][C14_RemoveSteps]_vars

\* the service is gone, the event-log source is still there, an error is returned
C14_Witness ==
  /\ OpIs("RemoveService") /\ cpc = "done" /\ ret = "error"
  /\ "Remove" \in failed
  /\ ~installed /\ evtSrc

\* C15: as a service, ManageService runs RunService(false) whatever the
\* command line is, and reaches neither the verb dispatch nor the usage exit;
\* when the in-service check fails it returns an error with nothing run; the
\* arguments a service is launched with are no verbs.
C15_ServiceFirst ==
  /\ inService = "yes" =>
        /\ invoked = <<Op("RunService", "false", None)>>
        /\ cpc \in {"run_service", "op_returned", "done"}
        /\ cmd = <<>> /\ exitCode = -1 /\ called = {}
        /\ cpc = "done" => (ret = "nil" <=> opErr = "nil")
  /\ inService = "error" =>
        /\ invoked = <<>> /\ called = {} /\ cmd = <<>>
        /\ cpc = "done" /\ ret = "error" /\ exitCode = -1
  /\ (inService = "no" /\ Len(osArgs) = 3 /\ osArgs[2] = <<"i", "s">>
         /\ cpc \notin {"args", "switch"}) =>
        (cpc = "exited" /\ exitCode = 2 /\ invoked = <<>>)

\* started by the SCM with the arguments InstallService registered
C15_Witness ==
  /\ inService = "yes"
  /\ Len(osArgs) = 3 /\ osArgs[2] = <<"i", "s">>
  /\ cpc = "done" /\ ret = "nil"
  /\ invoked = <<Op("RunService", "false", None)>>

\* the longest a sleep takes
MaxSleep == PollInterval + MaxOvershoot * (PollInterval \div 3)

C9_Observed ==
  OpIs("ControlService") =>
     /\ OpDone => (opErr = "nil" <=> stState = CurOp.to)
     /\ cpc \in {"ctl_sleep", "ctl_query"} => stState # CurOp.to
     /\ cpc = "ctl_sleep" => now <= timeout
     /\ opErr = "timeout" => (now > timeout /\ stState # CurOp.to)
     /\ "Query" \in failed => (OpDone /\ opErr = "query")
     /\ "Control" \in called \ failed => now <= timeout + MaxSleep

\* C9: ControlService returns nil exactly when the last state it observed is
\* the target; it queries only while the observed state differs and the
\* deadline has not passed, so never later than one sleep after the deadline;
\* past the deadline it returns the timeout error; a failed Query ends it at
\* once; and it always returns.
C9_ControlServiceTerminates ==
  /\ []C9_Observed
  /\ OpIs("ControlService") ~> (cpc = "done")

\* timed out exactly one poll interval after the deadline was reached
C9_Witness ==
  /\ OpIs("ControlService") /\ cpc = "done"
  /\ opErr = "timeout"
  /\ now = timeout + PollInterval

\* Fairness for the liveness claims: Execute takes its next step whenever it
\* can (the dispatcher keeps receiving on changes, so a send never blocks for
\* ever), and a worker returns once the context is cancelled.  Nothing forces
\* the task to finish or to cancel on its own, nor the SCM to send requests.
FairSpec ==
  /\ Spec
  /\ WF_vars(Execute)
  /\ WF_vars(ctxDone /\ WorkerDone)

\* ------------------------------------------------------------- properties
StopCmds == {"Stop", "Shutdown"}
StopPendingSent == \E i \in 1..Len(sent) : sent[i].line = 106
InLoop == pc \in {"select", "echo1", "sleep", "echo2"}
SomeWorkerDone == \E w \in Workers : worker[w] = "done"

\* C1: on a Stop or Shutdown request Execute cancels the context and waits
\* for the wait group before it sends StopPending and before it returns; and
\* StopPending is never on the changes channel while a worker is running.
C1_StopCancelsThenJoins ==
  /\ StopPendingSent => wgCount = 0
  /\ (c.Cmd \in StopCmds /\ pc \in {"send_stoppending", "returned"})
        => (ctxDone /\ wgCount = 0)
  /\ (c.Cmd \in StopCmds /\ pc = "returned") => StopPendingSent

C1_Witness ==
  /\ c.Cmd = "Stop"
  /\ pc = "returned"
  /\ StopPendingSent
  /\ \A w \in Workers : worker[w] = "done"

\* The statuses Execute sends itself, in order: StartPending (line 67), then
\* Running accepting Stop and Shutdown (line 77), then only echoes of the
\* current status (lines 89, 92), and StopPending (line 106) as the last one.
IsEcho(s, i) ==
  /\ s[i].line \in {89, 92}
  /\ s[i].State = s[i-1].State
  /\ s[i].Accepts = s[i-1].Accepts

Ordered(s) ==
  /\ Len(s) >= 1 => (s[1].line = 67 /\ s[1].State = "StartPending")
  /\ Len(s) >= 2 => (s[2].line = 77 /\ s[2].State = "Running" /\ s[2].Accepts = cmdsAccepted)
  /\ \A i \in 3..Len(s) :
       \/ IsEcho(s, i)
       \/ (i = Len(s) /\ s[i].line = 106 /\ s[i].State = "StopPending")

Complete(s) ==
  /\ Len(s) >= 3
  /\ Ordered(s)
  /\ s[Len(s)].line = 106

\* C2 as stated: every run of Execute reports StartPending, Running once,
\* StopPending once and last.
C2_EveryRunReportsAllThree ==
  pc = "returned" => Complete(sent)

\* C2 amended: the order holds at every moment of every run, and the run is
\* complete when Execute returns after Schedule succeeded; when Schedule
\* failed, StartPending is the only status of the run.
C2_OrderedStatuses ==
  /\ Ordered(sent)
  /\ (pc = "returned" /\ err = "nil") => Complete(sent)
  /\ (pc = "returned" /\ err = "error") => Len(sent) = 1
  /\ (pc # "returned") => ~StopPendingSent

C2_Witness ==
  /\ pc = "returned"
  /\ err = "nil"
  /\ Len(sent) = 5
  /\ IsEcho(sent, 3) /\ IsEcho(sent, 4)

\* C4: a Pause request brings the service to Paused (and a Continue request
\* brings it back to Running).
C4_PauseBringsPaused ==
  (InLoop /\ handled # <<>>) =>
     /\ handled[Len(handled)] = "Pause" => status.State = "Paused"
     /\ handled[Len(handled)] = "Continue" => status.State = "Running"

\* C7: whenever Execute has returned, the context is cancelled and no worker
\* registered in the wait group is still running.
C7_ReturnedImpliesCancelledAndJoined ==
  pc = "returned" => (ctxDone /\ wgCount = 0)

C7_Witness ==
  /\ pc = "returned"
  /\ err = "error"
  /\ SomeWorkerDone

\* C8: a Stop or Shutdown request offered on r while the service is running
\* is followed by StopPending and the return of Execute.
StopOffered == InLoop /\ outcr \in StopCmds

C8_StopLeadsToReturn ==
  StopOffered ~> (pc = "returned" /\ StopPendingSent)

\* the request arrives while an Interrogate is being handled and a worker is
\* still running
C8_Witness ==
  /\ pc = "sleep"
  /\ outcr \in StopCmds
  /\ wgCount > 0

\* C10: after Schedule returned an error, StartPending is the only status
\* sent, nothing is read from r, and Execute returns (false, 1) with the
\* context cancelled and the wait group drained.
C10_ScheduleError ==
  err = "error" =>
     /\ pc \in {"err_cancel", "err_wait", "returned"}
     /\ Len(sent) = 1 /\ sent[1].State = "StartPending"
     /\ nread = 0
     /\ pc = "returned" => (errno = 1 /\ ssec = FALSE /\ ctxDone /\ wgCount = 0)

\* a request was pending on r all along and a worker had been started
C10_Witness ==
  /\ err = "error"
  /\ pc = "returned"
  /\ outcr # None
  /\ SomeWorkerDone

\* Execute is leaving, or has left, through the ctx.Done() branch: Schedule
\* succeeded and the last request dispatched on, if any, was no Stop or Shutdown
SelfCancelExit ==
  /\ err = "nil"
  /\ pc \in {"done_wait", "send_stoppending", "returned"}
  /\ (handled = <<>> \/ handled[Len(handled)] \notin StopCmds)

\* C11: once the task has cancelled the context while the service is running,
\* Execute comes to return with StopPending sent and errno 0; when it leaves
\* through the ctx.Done() branch it has read no Stop or Shutdown, it waits
\* for the wait group before StopPending, and StopPending is its last status,
\* as on the Stop branch.
C11_SelfCancelStops ==
  /\ [](SelfCancelExit =>
          /\ ctxDone
          /\ c.Cmd \notin StopCmds
          /\ pc # "done_wait" => (wgCount = 0 /\ errno = 0)
          /\ pc = "returned" => (sent[Len(sent)].line = 106 /\ ~ssec))
  /\ []((pc = "returned" /\ err = "nil") => (errno = 0 /\ sent[Len(sent)].State = "StopPending"))
  /\ (InLoop /\ ctxDone) ~> (pc = "returned" /\ StopPendingSent /\ errno = 0)

\* the SCM sent nothing at all, and a worker had to be waited for
C11_Witness ==
  /\ pc = "returned" /\ err = "nil"
  /\ ncmds = 0 /\ nread = 0
  /\ StopPendingSent
  /\ SomeWorkerDone

EchoCount == Cardinality({i \in 1..Len(sent) : sent[i].line \in {89, 92}})
InterrogatesHandled == Cardinality({i \in 1..Len(handled) : handled[i] = "Interrogate"})

\* while Execute is in the loop: no Stop or Shutdown has been dispatched on,
\* every Interrogate has been answered by two echoes and nothing else was
\* sent since Running, and the service is still reported Running
C12_InLoop ==
  InLoop =>
     /\ \A i \in 1..Len(handled) : handled[i] \notin StopCmds
     /\ EchoCount = 2 * InterrogatesHandled + (IF pc \in {"sleep", "echo2"} THEN 1 ELSE 0)
     /\ Len(sent) = 2 + EchoCount
     /\ status = Status("Running", cmdsAccepted)
     /\ pc \in {"echo1", "sleep", "echo2"} => c.Cmd = "Interrogate"

\* receiving a request that is no Stop or Shutdown sends nothing by itself,
\* leaves the context alone and keeps Execute in the loop
C12_RecvOther ==
  (pc = "select" /\ nread' # nread /\ outcr \notin StopCmds) =>
     /\ pc' = (IF outcr = "Interrogate" THEN "echo1" ELSE "select")
     /\ ctxDone' = ctxDone
     /\ sent' = sent /\ status' = status

\* a step of Execute cancels the context only from the Stop/Shutdown branch
\* or from the Schedule-error branch, and the handling of an Interrogate
\* ends back at the select
C12_CancelOnlyOnStop ==
  /\ (pc' # pc /\ ctxDone' # ctxDone) =>
        \/ (pc = "stop_cancel" /\ c.Cmd \in StopCmds)
        \/ (pc = "err_cancel" /\ err = "error")
  /\ (pc \in {"echo1", "sleep", "echo2"} /\ pc' # pc) =>
        (pc' \in {"sleep", "echo2", "select"} /\ ctxDone' = ctxDone)

\* C12: a request other than Stop and Shutdown never stops the task:
\* Interrogate is answered by the current status sent twice, any other
\* request by no status; the context is left alone, Execute stays in the
\* loop and the service stays reported Running; Execute cancels the context
\* only for Stop, Shutdown or a Schedule error.
C12_OtherRequestsKeepRunning ==
  /\ []C12_InLoop
  /\ [][C12_RecvOther]_vars
  /\ [][C12_CancelOnlyOnStop]_vars

\* a Pause and an Interrogate have been handled; the task runs on uncancelled
C12_Witness ==
  /\ pc = "select" /\ ~ctxDone /\ wgCount > 0
  /\ \E i \in 1..Len(handled) : handled[i] = "Pause"
  /\ \E i \in 1..Len(handled) : handled[i] = "Interrogate"
  /\ Len(sent) = 4

TypeOK ==
  /\ pc \in {"start", "schedule", "err_cancel", "err_wait", "send_running", "select",
             "done_wait", "echo1", "sleep", "echo2", "stop_cancel", "stop_wait",
             "send_stoppending", "returned"}
  /\ ctxDone \in BOOLEAN
  /\ worker \in [Workers -> {"none", "running", "done"}]
  /\ err \in {"unset", "nil", "error"}
  /\ errno \in {0, 1}
  /\ ssec = FALSE
  /\ nread \in 0..MaxCmds
  /\ ncmds \in 0..MaxCmds
  /\ outcr \in Cmds \cup {None}
====
